---- MODULE Spec2Model ----
(***************************************************************************)
(* A model of displaymode (src/displaymode.c): command-line parsing, the   *)
(* list operation and the change operation, run against a model of the     *)
(* display service (CoreGraphics) and of the C library's conversions.      *)
(*                                                                         *)
(* Numbers.  TLC integers are 32 bits wide, so an `unsigned long' (64 bit) *)
(* is a tuple of four 16-bit limbs, least significant first, and a         *)
(* `uint32_t' is a tuple of two.  Refresh rates (C doubles) are integers   *)
(* in 1/1000 Hz.  Strings are tuples of one-character strings.             *)
(***************************************************************************)
EXTENDS Integers, Sequences, FiniteSets, TLC

----------------------------------------------------------------------------
(* Bounds of the model *)

\* Largest number of active displays the display service reports.
MaxDisplays == 2
\* Largest number of entries in a display's supported-modes array.
MaxModes == 2

----------------------------------------------------------------------------
(* enum Option, enum of argv positions, exit codes, CGError codes *)

\* The three non-letter options are named; the letter options are the letter.
kOptionMissing == "kOptionMissing"
kOptionInvalid == "kOptionInvalid"
kOptionInvalidMode == "kOptionInvalidMode"
kOptionSupportedModes == "d"
kOptionHelp == "h"
kOptionConfigureMode == "t"
kOptionVersion == "v"

kArgvOptionIndex == 1
kArgvWidthIndex == 2
kArgvHeightIndex == 3
kArgvRefreshOrDisplayIndex == 4

kMaxDisplays == 32

\* 0.005 Hz, in 1/1000 Hz
kRefreshTolerance == 5

EXIT_SUCCESS == 0
EXIT_FAILURE == 1
kCGErrorSuccess == 0
kCGErrorRangeCheck == 1007

\* The error codes a failing display-service call reports: the values of
\* CGError other than kCGErrorSuccess.
CGErrors == {1000, 1001, 1002, 1003, 1004, 1006, 1007, 1008, 1010, 1011}

----------------------------------------------------------------------------
(* unsigned long and uint32_t arithmetic on 16-bit limbs *)

LimbBase == 2 ^ 16

ULZero == <<0, 0, 0, 0>>
ULONG_MAX == <<65535, 65535, 65535, 65535>>

\* The unsigned long with the value n, for 0 <= n < 2^31.
ULFromNat(n) == <<n % LimbBase, n \div LimbBase, 0, 0>>

\* acc * 10 + d in 64 bits, and whether the exact result exceeds ULONG_MAX.
ULMul10Add(acc, d) ==
    LET t1 == acc[1] * 10 + d
        t2 == acc[2] * 10 + (t1 \div LimbBase)
        t3 == acc[3] * 10 + (t2 \div LimbBase)
        t4 == acc[4] * 10 + (t3 \div LimbBase)
    IN  [val |-> <<t1 % LimbBase, t2 % LimbBase, t3 % LimbBase, t4 % LimbBase>>,
         ovf |-> (t4 \div LimbBase) > 0]

\* Unsigned negation, -x modulo 2^64.
ULNeg(x) ==
    LET c1 == (LimbBase - 1 - x[1]) + 1
        c2 == (LimbBase - 1 - x[2]) + (c1 \div LimbBase)
        c3 == (LimbBase - 1 - x[3]) + (c2 \div LimbBase)
        c4 == (LimbBase - 1 - x[4]) + (c3 \div LimbBase)
    IN  <<c1 % LimbBase, c2 % LimbBase, c3 % LimbBase, c4 % LimbBase>>

\* The conversion (uint32_t) x of an unsigned long: the low 32 bits.
CastUInt32(x) == <<x[1], x[2]>>

U32Zero == <<0, 0>>

\* n <= x for a small n (0 <= n < 2^16) and a uint32_t x.
U32AtLeast(x, n) == x[2] > 0 \/ x[1] >= n

\* A size_t value reported by the display service (small) equals an
\* unsigned long held in the parsed arguments.
SizeEqualsUL(n, x) == x = ULFromNat(n)

\* 0 < x for an unsigned long.
ULPositive(x) == x # ULZero

----------------------------------------------------------------------------
(* C library conversions *)

DigitChars == <<"0", "1", "2", "3", "4", "5", "6", "7", "8", "9">>

IsDigit(c) == \E d \in 1..10 : DigitChars[d] = c

DigitValue(c) == (CHOOSE d \in 1..10 : DigitChars[d] = c) - 1

IsSpace(c) == c = " "

\* The character at position i of s, "" (the terminating NUL) beyond the end.
CharAt(s, i) == IF i \in 1..Len(s) THEN s[i] ELSE ""

RECURSIVE SkipSpace(_, _)
SkipSpace(s, i) == IF IsSpace(CharAt(s, i)) THEN SkipSpace(s, i + 1) ELSE i

\* The digit loop of strtoul: consumes the digits from position i on.
RECURSIVE StrtoulDigits(_, _, _, _, _)
StrtoulDigits(s, i, acc, any, ovf) ==
    IF IsDigit(CharAt(s, i))
    THEN LET m == ULMul10Add(acc, DigitValue(s[i]))
         IN  StrtoulDigits(s, i + 1, m.val, TRUE, ovf \/ m.ovf)
    ELSE [acc |-> acc, any |-> any, ovf |-> ovf]

\* strtoul(s, NULL, 10).  err is the value errno is set to, "" if it is left
\* alone.  einval: whether the library reports "no conversion" through errno
\* (the BSD library does, the C standard does not require it).
strtoul(s, einval) ==
    LET i0 == SkipSpace(s, 1)
        neg == CharAt(s, i0) = "-"
        i1 == IF CharAt(s, i0) \in {"-", "+"} THEN i0 + 1 ELSE i0
        r == StrtoulDigits(s, i1, ULZero, FALSE, FALSE)
    IN  IF r.ovf THEN [val |-> ULONG_MAX, err |-> "ERANGE"]
        ELSE IF ~r.any THEN [val |-> ULZero, err |-> IF einval THEN "EINVAL" ELSE ""]
        ELSE IF neg THEN [val |-> ULNeg(r.acc), err |-> ""]
        ELSE [val |-> r.acc, err |-> ""]

\* The digits of s from position i on, as a number, with their count.
RECURSIVE StrtodDigits(_, _, _, _)
StrtodDigits(s, i, acc, n) ==
    IF IsDigit(CharAt(s, i))
    THEN StrtodDigits(s, i + 1, acc * 10 + DigitValue(s[i]), n + 1)
    ELSE [acc |-> acc, n |-> n, end |-> i]

Pow10(k) == IF k = 0 THEN 1 ELSE IF k = 1 THEN 10 ELSE IF k = 2 THEN 100 ELSE 1000

\* strtod(s, &end) for decimal inputs with at most three fraction digits:
\* the value in 1/1000 Hz and whether anything was converted (end # s).
strtod(s) ==
    LET i0 == SkipSpace(s, 1)
        neg == CharAt(s, i0) = "-"
        i1 == IF CharAt(s, i0) \in {"-", "+"} THEN i0 + 1 ELSE i0
        ip == StrtodDigits(s, i1, 0, 0)
        dot == CharAt(s, ip.end) = "."
        fp == IF dot THEN StrtodDigits(s, ip.end + 1, 0, 0)
                     ELSE [acc |-> 0, n |-> 0, end |-> ip.end]
        mag == ip.acc * 1000 + fp.acc * Pow10(3 - fp.n)
    IN  IF ip.n + fp.n = 0 THEN [val |-> 0, conv |-> FALSE]
        ELSE [val |-> IF neg THEN 0 - mag ELSE mag, conv |-> TRUE]

\* fabs
fabs(x) == IF x < 0 THEN 0 - x ELSE x

----------------------------------------------------------------------------
(* The display service *)

\* A display mode as the display service reports it.  depth stands for the
\* fields other than width, height and refresh rate that distinguish modes.
Mode(w, h, r, u, d) == [width |-> w, height |-> h, rate |-> r, usable |-> u, depth |-> d]

ModeA == Mode(1280, 800, 60000, TRUE, 32)
ModeB == Mode(1280, 800, 75000, TRUE, 32)
ModeC == Mode(640, 480, 60000, FALSE, 32)
ModeD == Mode(1280, 800, 60000, TRUE, 16)

ModeSet == {ModeA, ModeB, ModeC, ModeD}

\* CFEqual on two display modes: equality of everything the service reports.
CFEqual(a, b) == a = b

RECURSIVE SeqsUpTo(_, _)
SeqsUpTo(S, n) ==
    IF n = 0 THEN {<<>>}
    ELSE LET shorter == SeqsUpTo(S, n - 1)
         IN  shorter \cup {Append(q, x) : q \in {t \in shorter : Len(t) = n - 1}, x \in S}

\* A display: its supported-modes array and its current mode.
Display(ms, cur) == [modes |-> ms, current |-> cur]

DisplayStates == {Display(ms, cur) : ms \in SeqsUpTo(ModeSet, MaxModes), cur \in ModeSet}

DefaultDisplay == Display(<<ModeA>>, ModeA)

\* Lists of active displays in which one display is arbitrary and the others
\* are the default display, and the empty list.
DisplayLists ==
    {<<>>} \cup
    {[k \in 1..n |-> IF k = f THEN d ELSE DefaultDisplay] :
        n \in 1..MaxDisplays, f \in 1..MaxDisplays, d \in DisplayStates}

\* The lists of active displays the command lines of ArgvSet are run against.
FewDisplayLists ==
    { <<>>,
      <<Display(<<ModeA, ModeB>>, ModeC)>>,
      <<Display(<<ModeD, ModeA>>, ModeA), Display(<<ModeC>>, ModeC)>> }

----------------------------------------------------------------------------
(* Command lines *)

Prog == <<"d", "i", "s", "p", "l", "a", "y", "m", "o", "d", "e">>

T2_64 == <<"1", "8", "4", "4", "6", "7", "4", "4", "0", "7", "3", "7", "0", "9", "5", "5", "1", "6", "1", "6">>
T2_32 == <<"4", "2", "9", "4", "9", "6", "7", "2", "9", "6">>
T2_32p1 == <<"4", "2", "9", "4", "9", "6", "7", "2", "9", "7">>

WidthTokens ==
    { <<"1", "2", "8", "0">>, <<"6", "4", "0">>, <<"0">>, <<"-", "5">>,
      <<"a", "b", "c">>, T2_64 }

HeightTokens ==
    { <<"8", "0", "0">>, <<"4", "8", "0">>, <<"0">>, <<"-", "5">>, <<"x">> }

RefreshTokens ==
    { <<"@", "6", "0">>, <<"@", "0">>, <<"@", "5", "9", ".", "9", "9", "6">>,
      <<"@", "5", "9", ".", "9", "9", "5">>, <<"@", "6", "1">>,
      <<"@", "7", "5", ".", "0">>, <<"@">>, <<"@", "a", "b", "c">>,
      <<"@", "-", "6", "0">> }

DisplayTokens ==
    { <<"0">>, <<"1">>, <<"a", "b", "c">>, <<"0", "x">>, <<"-", "1">>,
      T2_32, T2_32p1, T2_64 }

\* Zero or one token of S, as a sequence of tokens.
Optional(S) == {<<>>} \cup {<<t>> : t \in S}

\* The command lines of the change operation.
ChangeArgvSet ==
    { <<Prog, <<"t">>, w, h>> \o r \o d :
        w \in WidthTokens, h \in HeightTokens,
        r \in Optional(RefreshTokens), d \in Optional(DisplayTokens) }

\* The other command lines: no command, commands that are not one character
\* long, unknown commands, and a change with too few tokens.
OtherArgvSet ==
    { <<Prog>>, <<Prog, <<"d">>>>, <<Prog, <<"h">>>>, <<Prog, <<"v">>>>,
      <<Prog, <<"x">>>>, <<Prog, <<"t", "t">>>>, <<Prog, <<>>>>,
      <<Prog, <<"d">>, <<"0">>>>, <<Prog, <<"t">>>>,
      <<Prog, <<"t">>, <<"1", "2", "8", "0">>>> }

ArgvSet == ChangeArgvSet \cup OtherArgvSet

\* The command lines run against every list of DisplayLists.
FewArgvSet ==
    { <<Prog, <<"d">>>>,
      <<Prog, <<"t">>, <<"1", "2", "8", "0">>, <<"8", "0", "0">>>>,
      <<Prog, <<"t">>, <<"1", "2", "8", "0">>, <<"8", "0", "0">>, <<"@", "6", "0">>>>,
      <<Prog, <<"t">>, <<"1", "2", "8", "0">>, <<"8", "0", "0">>, <<"@", "7", "5">>, <<"1">>>>,
      <<Prog, <<"t">>, <<"6", "4", "0">>, <<"4", "8", "0">>, <<"1">>>>,
      <<Prog, <<"t">>, <<"1", "2", "8", "0">>, <<"4", "8", "0">>>>,
      <<Prog, <<"t">>, <<"6", "4", "0">>, <<"4", "8", "0">>, <<"@", "0">>>> }

----------------------------------------------------------------------------
(* Pure functions of displaymode.c *)

\* No mode (a NULL CGDisplayModeRef); a mode m is held as <<m>>.
NULL == <<>>

\* struct ParsedArgs after "= { 0 }".
ZeroParsedArgs ==
    [option |-> kOptionMissing, literal_option |-> NULL, width |-> ULZero,
     height |-> ULZero, refresh_rate |-> 0, display_index |-> U32Zero]

\* Non-zero (TRUE) if "actual" is acceptable for the given specification.
MatchesRefreshRate(specified, actual) ==
    specified = 0 \/ fabs(specified - actual) < kRefreshTolerance

\* The test of the loop body of GetModeMatching.
ModeMatches(pa, m) ==
    /\ SizeEqualsUL(m.width, pa.width)
    /\ SizeEqualsUL(m.height, pa.height)
    /\ MatchesRefreshRate(pa.refresh_rate, m.rate)

\* ScanModes without the break: the last matching index.
RECURSIVE ScanModesLast(_, _, _)
ScanModesLast(pa, modes, i) ==
    IF i < Len(modes)
    THEN LET later == ScanModesLast(pa, modes, i + 1)
         IN  IF later >= 0 THEN later
             ELSE IF ModeMatches(pa, modes[i + 1]) THEN i ELSE 0 - 1
    ELSE 0 - 1

\* The loop of GetModeMatching from index i (0-based) on: the index at which
\* it breaks, -1 if it runs to the end.
RECURSIVE ScanModes(_, _, _)
ScanModes(pa, modes, i) ==
    IF i < Len(modes)
    THEN IF ModeMatches(pa, modes[i + 1]) THEN i ELSE ScanModes(pa, modes, i + 1)
    ELSE 0 - 1

\* GetModeMatching falling back to the first mode of the array.
GetModeMatchingFallback(pa, modes) ==
    LET i == ScanModes(pa, modes, 0)
    IN  IF i >= 0 THEN <<modes[i + 1]>>
        ELSE IF Len(modes) > 0 THEN <<modes[1]>> ELSE NULL

\* The first mode matching the parsed arguments, NULL if no mode matched.
GetModeMatching(pa, modes) ==
    LET i == ScanModes(pa, modes, 0)
    IN  IF i < 0 THEN NULL ELSE <<modes[i + 1]>>

\* printf("%.1f") of a non-negative rate held in 1/1000 Hz.
FormatRate(r) ==
    LET tenths == (r + 50) \div 100
    IN  ToString(tenths \div 10) \o "." \o ToString(tenths % 10)

\* PrintMode without the test of usable_for_desktop.
PrintModeNoBang(m) ==
    <<ToString(m.width), " x ", ToString(m.height), " @", FormatRate(m.rate), "Hz">>

\* The text PrintMode writes, as the pieces of its format string.
PrintMode(m) ==
    <<ToString(m.width), " x ", ToString(m.height), " @", FormatRate(m.rate), "Hz">>
    \o (IF m.usable THEN <<>> ELSE <<" !">>)

\* The lines the loop of PrintModes writes from index i (0-based) on.
RECURSIVE PrintModesLoop(_, _, _)
PrintModesLoop(modes, current_mode, i) ==
    IF i < Len(modes)
    THEN <<PrintMode(modes[i + 1])
           \o (IF CFEqual(modes[i + 1], current_mode) THEN <<" *">> ELSE <<>>)>>
         \o PrintModesLoop(modes, current_mode, i + 1)
    ELSE <<>>

\* has_current after the loop of PrintModes.
HasCurrent(modes, current_mode) ==
    \E k \in 1..Len(modes) : CFEqual(modes[k], current_mode)

\* PrintModes without the test of has_current.
PrintModesAlwaysExtra(d) ==
    PrintModesLoop(d.modes, d.current, 0) \o <<PrintMode(d.current) \o <<" *">>>>

\* The lines PrintModes writes for one display.
PrintModes(d) ==
    PrintModesLoop(d.modes, d.current, 0)
    \o (IF ~HasCurrent(d.modes, d.current)
        THEN <<PrintMode(d.current) \o <<" *">>>>
        ELSE <<>>)

\* The header line PrintModesForAllDisplays writes before display i.
DisplayHeader(i) ==
    <<IF i = 0 THEN "" ELSE "\n", "Display ", ToString(i),
      IF i = 0 THEN " (MAIN)" ELSE "", ":">>

----------------------------------------------------------------------------
(* State *)

VARIABLES
    argv,          \* the command line, argv[0] first
    einval,        \* whether strtoul reports "no conversion" through errno
    displays,      \* the display service: the active displays, main first
    displays0,     \* the display service when the process started
    config,        \* the display service's configuration transaction
    pc,            \* the statement the process is at
    parsed_args,   \* struct ParsedArgs
    errno,         \* the C library's errno, "" for 0
    width,         \* ParseMode's local width
    height,        \* ParseMode's local height
    display_arg,   \* ParseMode's local display_index (a position in argv)
    display,       \* ConfigureMode's display (the position in the active list)
    mode,          \* ConfigureMode's mode
    original,      \* ConfigureMode's original width, height and refresh rate
    i,             \* the loop index of PrintModesForAllDisplays
    calls,         \* the display-service calls issued so far, in order
    out,           \* the lines written to the standard output stream
    err,           \* the lines written to the error stream
    ret,           \* the value main returned, once pc = "done"
    handles        \* per kind of handle, how many are acquired and not released

vars == <<argv, einval, displays, displays0, config, pc, parsed_args, errno,
          width, height, display_arg, display, mode, original, i, calls,
          out, err, ret, handles>>

argc == Len(argv)

\* argv[k] with the C index k (0-based).
Arg(k) == argv[k + 1]

NoHandles == [modes |-> 0, current_mode |-> 0, mode |-> 0]

InitProcess ==
    /\ displays0 = displays
    /\ config = [state |-> "none", display |-> 0, mode |-> NULL]
    /\ pc = "ParseArgs"
    /\ parsed_args = ZeroParsedArgs
    /\ errno = ""
    /\ width = ULZero
    /\ height = ULZero
    /\ display_arg = 0
    /\ display = 0
    /\ mode = NULL
    /\ original = NULL
    /\ i = 0
    /\ calls = <<>>
    /\ out = <<>>
    /\ err = <<>>
    /\ ret = 0
    /\ handles = NoHandles

\* Every command line of ArgvSet against a few lists of displays, and a few
\* command lines against every list of displays of DisplayLists.
Init ==
    /\ einval \in BOOLEAN
    /\ \/ argv \in ArgvSet /\ displays \in FewDisplayLists
       \/ argv \in FewArgvSet /\ displays \in DisplayLists
    /\ InitProcess

----------------------------------------------------------------------------
(* ParseArgs and ParseMode *)

\* The option ParseArgs stores for the command character c (the switch).
OptionFor(c) ==
    IF c \in {kOptionSupportedModes, kOptionHelp, kOptionConfigureMode, kOptionVersion}
    THEN c
    ELSE kOptionMissing

\* ParseArgs up to the call of ParseMode.
ParseArgs ==
    /\ pc = "ParseArgs"
    /\ IF argc <= 1 \/ Len(Arg(kArgvOptionIndex)) # 1
       THEN /\ parsed_args' = ZeroParsedArgs
            /\ pc' = "main"
       ELSE LET option == Arg(kArgvOptionIndex)[1]
            IN  /\ parsed_args' = [ZeroParsedArgs EXCEPT
                                     !.literal_option = Arg(kArgvOptionIndex),
                                     !.option = OptionFor(option)]
                /\ pc' = IF option = kOptionConfigureMode THEN "ParseMode" ELSE "main"
    /\ UNCHANGED <<argv, einval, displays, displays0, config, errno, width, height,
                   display_arg, display, mode, original, i, calls, out, err, ret,
                   handles>>

\* ParseMode: the check of argc.
ParseModeArgc ==
    /\ pc = "ParseMode"
    /\ IF argc <= kArgvHeightIndex
       THEN /\ parsed_args' = [parsed_args EXCEPT !.option = kOptionInvalidMode]
            /\ pc' = "main"
       ELSE /\ parsed_args' = parsed_args
            /\ pc' = "ParseWidth"
    /\ UNCHANGED <<argv, einval, displays, displays0, config, errno, width, height,
                   display_arg, display, mode, original, i, calls, out, err, ret,
                   handles>>

\* errno after a call of strtoul that reported r.
ErrnoAfter(before, r) == IF r.err # "" THEN r.err ELSE before

\* ParseMode: errno = 0 and the conversion of the width.
ParseModeWidth ==
    /\ pc = "ParseWidth"
    /\ LET r == strtoul(Arg(kArgvWidthIndex), einval)
           e == ErrnoAfter("", r)
       IN  /\ width' = r.val
           /\ IF e # ""
              THEN /\ err' = Append(err, <<"Error parsing width ", e>>)
                   /\ parsed_args' = [parsed_args EXCEPT !.option = kOptionInvalidMode]
              ELSE UNCHANGED <<err, parsed_args>>
           /\ errno' = ""
    /\ pc' = "ParseHeight"
    /\ UNCHANGED <<argv, einval, displays, displays0, config, height, display_arg,
                   display, mode, original, i, calls, out, ret, handles>>

\* ParseMode: the conversion of the height.
ParseModeHeight ==
    /\ pc = "ParseHeight"
    /\ LET r == strtoul(Arg(kArgvHeightIndex), einval)
           e == ErrnoAfter(errno, r)
       IN  /\ height' = r.val
           /\ IF e # ""
              THEN /\ err' = Append(err, <<"Error parsing height ", e>>)
                   /\ parsed_args' = [parsed_args EXCEPT !.option = kOptionInvalidMode]
              ELSE UNCHANGED <<err, parsed_args>>
           /\ errno' = ""
    /\ pc' = "ParseRefresh"
    /\ UNCHANGED <<argv, einval, displays, displays0, config, width, display_arg,
                   display, mode, original, i, calls, out, ret, handles>>

\* ParseMode: the optional refresh rate, "@" first.
ParseModeRefresh ==
    /\ pc = "ParseRefresh"
    /\ IF kArgvRefreshOrDisplayIndex < argc
          /\ CharAt(Arg(kArgvRefreshOrDisplayIndex), 1) = "@"
       THEN LET r == strtod(Tail(Arg(kArgvRefreshOrDisplayIndex)))
            IN  /\ display_arg' = kArgvRefreshOrDisplayIndex + 1
                /\ IF ~r.conv
                   THEN /\ err' = Append(err, <<"Error parsing refresh rate">>)
                        /\ parsed_args' = [parsed_args EXCEPT
                                             !.refresh_rate = r.val,
                                             !.option = kOptionInvalidMode]
                   ELSE /\ err' = err
                        /\ parsed_args' = [parsed_args EXCEPT !.refresh_rate = r.val]
       ELSE /\ display_arg' = kArgvRefreshOrDisplayIndex
            /\ UNCHANGED <<err, parsed_args>>
    /\ pc' = "ParseDisplay"
    /\ UNCHANGED <<argv, einval, displays, displays0, config, errno, width, height,
                   display, mode, original, i, calls, out, ret, handles>>

\* ParseMode: the optional display index.
ParseModeDisplay ==
    /\ pc = "ParseDisplay"
    /\ IF display_arg < argc
       THEN LET r == strtoul(Arg(display_arg), einval)
                e == ErrnoAfter(errno, r)
            IN  /\ IF e # ""
                   THEN /\ err' = Append(err, <<"Error parsing display ", e>>)
                        /\ parsed_args' = [parsed_args EXCEPT
                                             !.display_index = CastUInt32(r.val),
                                             !.option = kOptionInvalidMode]
                   ELSE /\ err' = err
                        /\ parsed_args' = [parsed_args EXCEPT
                                             !.display_index = CastUInt32(r.val)]
                /\ errno' = ""
       ELSE UNCHANGED <<err, parsed_args, errno>>
    /\ pc' = "ParseCheck"
    /\ UNCHANGED <<argv, einval, displays, displays0, config, width, height,
                   display_arg, display, mode, original, i, calls, out, ret, handles>>

\* StoreSize setting the option back to "t" when both sizes are positive.
StoreSizeReset(pa, w, h) ==
    IF ULPositive(w) /\ ULPositive(h)
    THEN [pa EXCEPT !.width = w, !.height = h, !.option = kOptionConfigureMode]
    ELSE [pa EXCEPT !.option = kOptionInvalidMode]

\* The parsed arguments after the final test of ParseMode on width w and
\* height h.
StoreSize(pa, w, h) ==
    IF ULPositive(w) /\ ULPositive(h)
    THEN [pa EXCEPT !.width = w, !.height = h]
    ELSE [pa EXCEPT !.option = kOptionInvalidMode]

\* ParseMode: the final test of width and height, and the return to main.
ParseModeCheck ==
    /\ pc = "ParseCheck"
    /\ parsed_args' = StoreSize(parsed_args, width, height)
    /\ pc' = "main"
    /\ UNCHANGED <<argv, einval, displays, displays0, config, errno, width, height,
                   display_arg, display, mode, original, i, calls, out, err, ret,
                   handles>>

----------------------------------------------------------------------------
(* main *)

Usage == <<"Usage:">>

\* MainDispatch with kOptionInvalidMode falling through to ConfigureMode.
MainDispatchFallThrough(option) ==
    IF option \in {kOptionConfigureMode, kOptionInvalidMode} THEN "GetDisplayID"
    ELSE IF option = kOptionSupportedModes THEN "PrintModesForAllDisplays"
    ELSE "done"

\* Where main's switch goes for an option: into ConfigureMode, into
\* PrintModesForAllDisplays, or to the end of main.
MainDispatch(option) ==
    IF option = kOptionConfigureMode THEN "GetDisplayID"
    ELSE IF option = kOptionSupportedModes THEN "PrintModesForAllDisplays"
    ELSE "done"

\* main after ParseArgs returned: the switch on the option.
Main ==
    /\ pc = "main"
    /\ pc' = MainDispatch(parsed_args.option)
    /\ LET option == parsed_args.option
       IN  IF option = kOptionMissing
           THEN /\ err' = Append(err, <<"Missing option; server mode is not supported">>)
                /\ out' = Append(out, Usage)
                /\ ret' = EXIT_FAILURE
           ELSE IF option = kOptionInvalid
           THEN /\ err' = Append(err, <<"Invalid option: ">> \o parsed_args.literal_option)
                /\ out' = Append(out, Usage)
                /\ ret' = EXIT_FAILURE
           ELSE IF option = kOptionInvalidMode
           THEN /\ err' = Append(err, <<"Invalid mode">>)
                /\ out' = out
                /\ ret' = EXIT_FAILURE
           ELSE IF option = kOptionHelp
           THEN /\ out' = Append(out, Usage)
                /\ err' = err
                /\ ret' = EXIT_SUCCESS
           ELSE IF option = kOptionVersion
           THEN /\ out' = Append(out, <<"displaymode 1.4.0">>)
                /\ err' = err
                /\ ret' = EXIT_SUCCESS
           ELSE UNCHANGED <<out, err, ret>>
    /\ UNCHANGED <<argv, einval, displays, displays0, config, parsed_args, errno,
                   width, height, display_arg, display, mode, original, i, calls,
                   handles>>

----------------------------------------------------------------------------
(* ConfigureMode *)

\* The outcomes of a display-service call that reports a CGError.
CallOutcomes == {kCGErrorSuccess} \cup CGErrors

\* An entry of the log of display-service calls: the call and what it reported.
Call(name, e) == [name |-> name, result |-> e]

\* num_displays as CGGetActiveDisplayList(kMaxDisplays, ...) sets it.
ActiveDisplayCount(ds) == IF Len(ds) < kMaxDisplays THEN Len(ds) ELSE kMaxDisplays

\* GetDisplayID's range check: num_displays <= display_index.
OutOfRange(num_displays, display_index) == U32AtLeast(display_index, num_displays)

\* AfterCall without the return.
AfterCallGoOn(e, next) == next

\* Where ConfigureMode goes after a call that reported e: it returns e at
\* once, or goes on to the statement next.
AfterCall(e, next) == IF e # kCGErrorSuccess THEN "done" ELSE next

\* ConfigureMode reporting success when no mode matched.
NoMatchReturnSuccess == EXIT_SUCCESS

\* What ConfigureMode returns when no mode matched.
NoMatchReturn == 0 - 1

\* The exit status the caller of the process sees for the value r returned
\* by main: its low eight bits.
ExitStatus(r) == r % 256

\* AfterMatch going straight to the configuration, without saving the
\* original resolution first.
AfterMatchSkipOriginal(m) == IF m = NULL THEN "done" ELSE "Begin"

\* Where ConfigureMode goes with the mode GetModeMatching returned.
AfterMatch(m) == IF m = NULL THEN "done" ELSE "CopyDisplayMode"

\* ConfigureMode: GetDisplayID.
GetDisplayID ==
    /\ pc = "GetDisplayID"
    /\ \E e \in CallOutcomes :
         /\ calls' = Append(calls, Call("CGGetActiveDisplayList", e))
         /\ IF e # kCGErrorSuccess
            THEN /\ err' = Append(err, <<"CGGetActiveDisplayList CGError: ", ToString(e)>>)
                 /\ ret' = e
                 /\ pc' = "done"
                 /\ display' = display
            ELSE IF OutOfRange(ActiveDisplayCount(displays), parsed_args.display_index)
            THEN /\ err' = Append(err, <<"Display not supported; display must be < ",
                                         ToString(ActiveDisplayCount(displays))>>)
                 /\ ret' = kCGErrorRangeCheck
                 /\ pc' = "done"
                 /\ display' = display
            ELSE /\ display' = parsed_args.display_index[1]
                 /\ pc' = "GetModeMatching"
                 /\ UNCHANGED <<err, ret>>
    /\ UNCHANGED <<argv, einval, displays, displays0, config, parsed_args, errno,
                   width, height, display_arg, mode, original, i, out, handles>>

\* ConfigureMode: GetModeMatching, and the return of -1 if it found no mode.
\* The array of modes is copied and released; a matched mode is retained.
SelectMode ==
    /\ pc = "GetModeMatching"
    /\ calls' = Append(calls, Call("CGDisplayCopyAllDisplayModes", kCGErrorSuccess))
    /\ LET m == GetModeMatching(parsed_args, displays[display + 1].modes)
       IN  /\ mode' = m
           /\ pc' = AfterMatch(m)
           /\ IF m = NULL
              THEN /\ err' = Append(err, <<"Could not find a mode for resolution">>)
                   /\ ret' = NoMatchReturn
                   /\ handles' = handles
              ELSE /\ handles' = [handles EXCEPT !.mode = @ + 1]
                   /\ UNCHANGED <<err, ret>>
    /\ UNCHANGED <<argv, einval, displays, displays0, config, parsed_args, errno,
                   width, height, display_arg, display, original, i, out>>

\* ConfigureMode: save the original resolution.  The current mode is copied
\* and released.
CopyDisplayMode ==
    /\ pc = "CopyDisplayMode"
    /\ calls' = Append(calls, Call("CGDisplayCopyDisplayMode", kCGErrorSuccess))
    /\ LET original_mode == displays[display + 1].current
       IN  original' = <<[width |-> original_mode.width,
                          height |-> original_mode.height,
                          rate |-> original_mode.rate]>>
    /\ pc' = "Begin"
    /\ UNCHANGED <<argv, einval, displays, displays0, config, parsed_args, errno,
                   width, height, display_arg, display, mode, i, out, err, ret,
                   handles>>

\* ConfigureMode: CGBeginDisplayConfiguration.
Begin ==
    /\ pc = "Begin"
    /\ \E e \in CallOutcomes :
         /\ calls' = Append(calls, Call("CGBeginDisplayConfiguration", e))
         /\ pc' = AfterCall(e, "Configure")
         /\ IF e # kCGErrorSuccess
            THEN /\ err' = Append(err, <<"CGBeginDisplayConfiguration CGError: ", ToString(e)>>)
                 /\ ret' = e
                 /\ config' = config
            ELSE /\ config' = [config EXCEPT !.state = "begun"]
                 /\ UNCHANGED <<err, ret>>
    /\ UNCHANGED <<argv, einval, displays, displays0, parsed_args, errno, width,
                   height, display_arg, display, mode, original, i, out, handles>>

\* ConfigureMode: CGConfigureDisplayWithDisplayMode.
Configure ==
    /\ pc = "Configure"
    /\ \E e \in CallOutcomes :
         /\ calls' = Append(calls, Call("CGConfigureDisplayWithDisplayMode", e))
         /\ pc' = AfterCall(e, "Complete")
         /\ IF e # kCGErrorSuccess
            THEN /\ err' = Append(err, <<"CGConfigureDisplayWithDisplayMode CGError: ",
                                         ToString(e)>>)
                 /\ ret' = e
                 /\ config' = config
            ELSE /\ config' = [state |-> "configured", display |-> display, mode |-> mode]
                 /\ UNCHANGED <<err, ret>>
    /\ UNCHANGED <<argv, einval, displays, displays0, parsed_args, errno, width,
                   height, display_arg, display, mode, original, i, out, handles>>

\* The display service after a configuration transaction c completed: the
\* display it names has the mode it names.
Committed(ds, c) ==
    IF c.state = "configured"
    THEN [ds EXCEPT ![c.display + 1].current = c.mode[1]]
    ELSE ds

\* printf("%lu") of an unsigned long below 2^31 (a matched width or height).
FormatUL(x) ==
    IF x[3] = 0 /\ x[4] = 0 /\ x[2] < 2 ^ 15
    THEN ToString(x[1] + x[2] * LimbBase)
    ELSE "large"

\* The line ConfigureMode prints on success.
ChangedLine(pa, orig) ==
    IF pa.refresh_rate = 0
    THEN <<"Changed display resolution from ", ToString(orig.width), "x",
           ToString(orig.height), " to ", FormatUL(pa.width), "x",
           FormatUL(pa.height)>>
    ELSE <<"Changed display resolution from ", ToString(orig.width), "x",
           ToString(orig.height), " @", ToString(orig.rate), " to ",
           FormatUL(pa.width), "x", FormatUL(pa.height), " @",
           FormatRate(pa.refresh_rate)>>

\* ConfigureMode: CGCompleteDisplayConfiguration, and on success the release
\* of the mode and the report.
Complete ==
    /\ pc = "Complete"
    /\ \E e \in CallOutcomes :
         /\ calls' = Append(calls, Call("CGCompleteDisplayConfiguration", e))
         /\ pc' = "done"
         /\ IF e # kCGErrorSuccess
            THEN /\ err' = Append(err, <<"CGCompleteDisplayConfiguration CGError: ",
                                         ToString(e)>>)
                 /\ ret' = e
                 /\ UNCHANGED <<config, displays, handles, out>>
            ELSE /\ displays' = Committed(displays, config)
                 /\ config' = [config EXCEPT !.state = "none"]
                 /\ handles' = [handles EXCEPT !.mode = @ - 1]
                 /\ out' = Append(out, ChangedLine(parsed_args, original[1]))
                 /\ ret' = EXIT_SUCCESS
                 /\ err' = err
    /\ UNCHANGED <<argv, einval, displays0, parsed_args, errno, width, height,
                   display_arg, display, mode, original, i>>

----------------------------------------------------------------------------
(* PrintModesForAllDisplays *)

\* PrintModesForAllDisplays: CGGetActiveDisplayList.
ListDisplays ==
    /\ pc = "PrintModesForAllDisplays"
    /\ \E e \in CallOutcomes :
         /\ calls' = Append(calls, Call("CGGetActiveDisplayList", e))
         /\ IF e # kCGErrorSuccess
            THEN /\ err' = Append(err, <<"CGGetActiveDisplayList CGError: ", ToString(e)>>)
                 /\ ret' = e
                 /\ pc' = "done"
                 /\ i' = i
            ELSE /\ i' = 0
                 /\ pc' = "PrintModes"
                 /\ UNCHANGED <<err, ret>>
    /\ UNCHANGED <<argv, einval, displays, displays0, config, parsed_args, errno,
                   width, height, display_arg, display, mode, original, out, handles>>

\* PrintModesForAllDisplays: one turn of the loop, the header and PrintModes
\* for display i.  PrintModes copies the current mode and the array of modes
\* and releases both.
PrintDisplay ==
    /\ pc = "PrintModes"
    /\ i < ActiveDisplayCount(displays)
    /\ calls' = calls \o <<Call("CGDisplayCopyDisplayMode", kCGErrorSuccess),
                            Call("CGDisplayCopyAllDisplayModes", kCGErrorSuccess)>>
    /\ out' = out \o <<DisplayHeader(i)>> \o PrintModes(displays[i + 1])
    /\ i' = i + 1
    /\ UNCHANGED <<argv, einval, displays, displays0, config, pc, parsed_args, errno,
                   width, height, display_arg, display, mode, original, err, ret,
                   handles>>

\* PrintModesForAllDisplays: the end of the loop.
PrintDone ==
    /\ pc = "PrintModes"
    /\ ~(i < ActiveDisplayCount(displays))
    /\ ret' = EXIT_SUCCESS
    /\ pc' = "done"
    /\ UNCHANGED <<argv, einval, displays, displays0, config, parsed_args, errno,
                   width, height, display_arg, display, mode, original, i, calls,
                   out, err, handles>>

----------------------------------------------------------------------------
(* Specification *)

Next ==
    \/ ParseArgs
    \/ ParseModeArgc
    \/ ParseModeWidth
    \/ ParseModeHeight
    \/ ParseModeRefresh
    \/ ParseModeDisplay
    \/ ParseModeCheck
    \/ Main
    \/ GetDisplayID
    \/ SelectMode
    \/ CopyDisplayMode
    \/ Begin
    \/ Configure
    \/ Complete
    \/ ListDisplays
    \/ PrintDisplay
    \/ PrintDone

Spec == Init /\ [][Next]_vars

----------------------------------------------------------------------------
(* Vocabulary of the properties *)

ParsePcs ==
    {"ParseArgs", "ParseMode", "ParseWidth", "ParseHeight", "ParseRefresh",
     "ParseDisplay", "ParseCheck"}

\* ParseArgs has returned.
Parsed == pc \notin ParsePcs

MutationCalls ==
    {"CGBeginDisplayConfiguration", "CGConfigureDisplayWithDisplayMode",
     "CGCompleteDisplayConfiguration"}

NoMutationIssued == \A k \in 1..Len(calls) : calls[k].name \notin MutationCalls

\* The command is "t".
IsChange == argc > 1 /\ Arg(1) = <<"t">>

\* t is a non-empty string of decimal digits.
IsDecimal(t) == Len(t) > 0 /\ \A k \in 1..Len(t) : IsDigit(t[k])

\* t is a decimal numeral of a strictly positive integer.
IsPositiveDecimal(t) == IsDecimal(t) /\ \E k \in 1..Len(t) : t[k] # "0"

\* The value of the decimal numeral t, or 1000000 if it is larger.
RECURSIVE DecimalValueFrom(_, _, _)
DecimalValueFrom(t, k, acc) ==
    IF k > Len(t) THEN acc
    ELSE LET v == acc * 10 + DigitValue(t[k])
         IN  DecimalValueFrom(t, k + 1, IF v > 1000000 THEN 1000000 ELSE v)

DecimalValue(t) == DecimalValueFrom(t, 1, 0)

\* The "@<refresh>" token of the command line.
RefreshTokenPresent == argc > 4 /\ CharAt(Arg(4), 1) = "@"

\* The display token of the command line: the token after width, height and
\* the refresh token if there is one.
DisplayTokenIndex == IF RefreshTokenPresent THEN 5 ELSE 4
DisplayTokenPresent == DisplayTokenIndex < argc
DisplayToken == Arg(DisplayTokenIndex)

\* The change operation resolved the display and GetModeMatching returned.
SelectionMade ==
    /\ parsed_args.option = kOptionConfigureMode
    /\ pc \in {"CopyDisplayMode", "Begin", "Configure", "Complete", "done"}
    /\ Len(calls) >= 2

\* The catalog of the resolved display.
Catalog == displays[display + 1].modes

\* The size of mode m equals the requested width and height.
SameSize(m) ==
    /\ parsed_args.width = <<m.width % LimbBase, m.width \div LimbBase, 0, 0>>
    /\ parsed_args.height = <<m.height % LimbBase, m.height \div LimbBase, 0, 0>>

\* Mode m satisfies the parsed target: same size, and a refresh rate the
\* target's constraint (refresh_rate, 0 for none) accepts.
Qualifies(m) == SameSize(m) /\ MatchesRefreshRate(parsed_args.refresh_rate, m.rate)

QualifyingPositions == {k \in 1..Len(Catalog) : Qualifies(Catalog[k])}

----------------------------------------------------------------------------
(* Properties *)

\* C1: the mode GetModeMatching selects is the catalog entry at the smallest
\* position whose width and height equal the requested ones and whose refresh
\* rate satisfies the target's constraint; it is no mode if no position
\* qualifies; a selected mode has the requested width and height.
C1_FirstMatch ==
    SelectionMade =>
        IF QualifyingPositions = {}
        THEN mode = NULL
        ELSE \E k \in QualifyingPositions :
                /\ \A j \in QualifyingPositions : k <= j
                /\ mode = <<Catalog[k]>>
                /\ SameSize(mode[1])

\* A mode was selected although a different entry further on qualifies too.
C1_Witness ==
    /\ SelectionMade
    /\ mode # NULL
    /\ \E j \in QualifyingPositions : Catalog[j] # mode[1]

\* The refresh-rate constraint as C2 states it: any rate without a token,
\* within the tolerance of the token's value with one.
TokenAccepts(m) ==
    RefreshTokenPresent =>
        fabs(strtod(Tail(Arg(4))).val - m.rate) < kRefreshTolerance

TokenQualifyingPositions ==
    {k \in 1..Len(Catalog) : SameSize(Catalog[k]) /\ TokenAccepts(Catalog[k])}

\* C2: without a "@<refresh>" token every catalog rate satisfies the
\* constraint; with a token of value r (r = 0 included) a mode of rate a
\* satisfies it if and only if |r - a| is within the tolerance.  Stated on
\* the selection: the selected mode is the first entry of the requested size
\* that satisfies this constraint, and no mode if there is none.
C2_RefreshMatching ==
    SelectionMade =>
        IF TokenQualifyingPositions = {}
        THEN mode = NULL
        ELSE \E k \in TokenQualifyingPositions :
                /\ \A j \in TokenQualifyingPositions : k <= j
                /\ mode = <<Catalog[k]>>

\* C3: a change request that no entry of the resolved display's catalog
\* satisfies fails with a non-zero outcome, issues none of the mutation
\* calls, and leaves the display's mode as it was.
C3_NoMatch ==
    (SelectionMade /\ QualifyingPositions = {}) =>
        /\ pc = "done"
        /\ ret # 0
        /\ NoMutationIssued
        /\ displays = displays0

\* No entry satisfies the request although the catalog has an entry of the
\* requested size, and the operation has returned.
C3_Witness ==
    /\ SelectionMade
    /\ QualifyingPositions = {}
    /\ \E k \in 1..Len(Catalog) : SameSize(Catalog[k])
    /\ pc = "done"

\* C4: a display index written as a non-negative decimal integer (2^32 and
\* above included) that is >= the number of active displays makes the change
\* operation fail with the range error, and no mutation call is issued.
C4_RangeCheck ==
    ( /\ Parsed
      /\ parsed_args.option = kOptionConfigureMode
      /\ DisplayTokenPresent
      /\ IsDecimal(DisplayToken)
      /\ DecimalValue(DisplayToken) >= Len(displays0) ) =>
        /\ NoMutationIssued
        /\ pc = "done" =>
              \/ ret = kCGErrorRangeCheck
              \/ calls[1].result # kCGErrorSuccess /\ ret = calls[1].result

\* C5: if begin, configure or complete reports an error, ConfigureMode
\* returns that error at once, issues no later step, and the displays' modes
\* are as before the run; a mode changes only when all three succeeded.
C5_AtomicApply ==
    /\ \A k \in 1..Len(calls) :
          (calls[k].name \in MutationCalls /\ calls[k].result # kCGErrorSuccess) =>
              /\ k = Len(calls)
              /\ pc = "done"
              /\ ret = calls[k].result
              /\ displays = displays0
    /\ displays # displays0 =>
          \A n \in MutationCalls :
              \E k \in 1..Len(calls) : calls[k] = [name |-> n, result |-> kCGErrorSuccess]

\* Begin and configure succeeded and complete reported an error.
C5_Witness ==
    /\ Len(calls) >= 3
    /\ calls[Len(calls)].name = "CGCompleteDisplayConfiguration"
    /\ calls[Len(calls)].result # kCGErrorSuccess
    /\ calls[Len(calls) - 1] = [name |-> "CGConfigureDisplayWithDisplayMode",
                                 result |-> kCGErrorSuccess]

\* C6: a change command with fewer than two tokens after it, or whose width
\* or height token is not a strictly positive decimal integer, parses to
\* "invalid mode", exits non-zero and never enters ConfigureMode.
C6_SizeValidation ==
    ( /\ Parsed
      /\ IsChange
      /\ \/ argc < 4
         \/ ~IsPositiveDecimal(Arg(2))
         \/ ~IsPositiveDecimal(Arg(3)) ) =>
        /\ parsed_args.option = kOptionInvalidMode
        /\ calls = <<>>
        /\ pc = "done" => ret # 0

\* C7: a change command with valid width and height whose display token is
\* present and is not a non-negative decimal integer parses to "invalid
\* mode", exits non-zero and attempts no mutation.
C7_DisplayValidation ==
    ( /\ Parsed
      /\ IsChange
      /\ argc >= 4
      /\ IsPositiveDecimal(Arg(2))
      /\ IsPositiveDecimal(Arg(3))
      /\ DisplayTokenPresent
      /\ ~IsDecimal(DisplayToken) ) =>
        /\ parsed_args.option = kOptionInvalidMode
        /\ NoMutationIssued
        /\ pc = "done" => ret # 0

\* A line of the standard output is a display header.
IsHeader(line) == Len(line) >= 2 /\ line[2] = "Display "

\* The lines of the list operation's output, one sequence per display: the
\* lines after each header up to the next.
RECURSIVE BlocksOf(_)
BlocksOf(lines) ==
    IF lines = <<>> THEN <<>>
    ELSE LET before == BlocksOf(SubSeq(lines, 1, Len(lines) - 1))
             last == lines[Len(lines)]
         IN  IF IsHeader(last) THEN Append(before, <<>>)
             ELSE [before EXCEPT ![Len(before)] = Append(@, last)]

HasPiece(line, p) == \E k \in 1..Len(line) : line[k] = p

\* C8: the block the list operation prints for a display has exactly one
\* line with the current-mode marker.
C8_OneMarker ==
    parsed_args.option = kOptionSupportedModes =>
        \A b \in 1..Len(BlocksOf(out)) :
            Cardinality({k \in 1..Len(BlocksOf(out)[b]) :
                            HasPiece(BlocksOf(out)[b][k], " *")}) = 1

\* The mode a line of a display's block is printed for: the catalog entry at
\* its position, the current mode for the line after the catalog.
EntryOfLine(d, j) == IF j <= Len(d.modes) THEN d.modes[j] ELSE d.current

BaseLine(m) ==
    <<ToString(m.width), " x ", ToString(m.height), " @", FormatRate(m.rate), "Hz">>

Star(d, m) == IF m = d.current THEN <<" *">> ELSE <<>>
Bang(m) == IF m.usable THEN <<>> ELSE <<" !">>

\* C9 as stated: every mode line is "<width> x <height> @<rate>Hz", then
\* " *" if the entry is the current mode, then " !" if it is not usable.
C9_StarThenBang ==
    parsed_args.option = kOptionSupportedModes =>
        \A b \in 1..Len(BlocksOf(out)) :
            /\ Len(BlocksOf(out)[b]) >= Len(displays[b].modes)
            /\ \A j \in 1..Len(BlocksOf(out)[b]) :
                  LET m == EntryOfLine(displays[b], j)
                  IN  BlocksOf(out)[b][j] = BaseLine(m) \o Star(displays[b], m) \o Bang(m)

\* C9 amended: every mode line is "<width> x <height> @<rate>Hz", then " !"
\* if the entry is not usable, then " *" if it is the current mode.
C9_BangThenStar ==
    parsed_args.option = kOptionSupportedModes =>
        \A b \in 1..Len(BlocksOf(out)) :
            /\ Len(BlocksOf(out)[b]) >= Len(displays[b].modes)
            /\ \A j \in 1..Len(BlocksOf(out)[b]) :
                  LET m == EntryOfLine(displays[b], j)
                  IN  BlocksOf(out)[b][j] = BaseLine(m) \o Bang(m) \o Star(displays[b], m)

\* A catalog entry that is current and not usable was printed.
C9_Witness ==
    /\ parsed_args.option = kOptionSupportedModes
    /\ \E b \in 1..Len(BlocksOf(out)) :
          \E j \in 1..Len(displays[b].modes) :
              /\ j <= Len(BlocksOf(out)[b])
              /\ displays[b].modes[j] = displays[b].current
              /\ ~displays[b].modes[j].usable

\* The command line is a usage error: no command, a command that is not one
\* character long or is not one of d, h, t, v, or a change that parsed to
\* "invalid mode".
UsageError ==
    \/ argc <= 1
    \/ Len(Arg(1)) # 1
    \/ Arg(1)[1] \notin {"d", "h", "t", "v"}
    \/ Parsed /\ parsed_args.option = kOptionInvalidMode

\* C10: on a usage error the process issues no display-service call at all
\* and exits with failure.
C10_UsageErrorsTouchNothing ==
    UsageError =>
        /\ calls = <<>>
        /\ pc \in ParsePcs \cup {"main", "done"}
        /\ pc = "done" => ret = EXIT_FAILURE

\* A change command parsed to "invalid mode" and main has returned.
C10_Witness ==
    /\ IsChange
    /\ parsed_args.option = kOptionInvalidMode
    /\ pc = "done"

\* The run ended in an error: a usage error, a display-service call that
\* reported an error, a display index out of range, or no matching mode.
EndedInError ==
    \/ UsageError
    \/ \E k \in 1..Len(calls) : calls[k].result # kCGErrorSuccess
    \/ /\ parsed_args.option = kOptionConfigureMode
       /\ Len(calls) = 1
    \/ /\ parsed_args.option = kOptionConfigureMode
       /\ Len(calls) = 2
       /\ mode = NULL

\* C11: a run that ends in an error of any class (usage, enumeration, range,
\* no match, configuration error) exits with a non-zero status, main's
\* return value modulo 256; a successful run exits with status 0.
C11_ExitStatus ==
    pc = "done" =>
        IF EndedInError THEN ExitStatus(ret) # 0 ELSE ExitStatus(ret) = 0

\* The change operation found no matching mode and main returned -1.
C11_Witness ==
    /\ pc = "done"
    /\ parsed_args.option = kOptionConfigureMode
    /\ Len(calls) = 2
    /\ mode = NULL
    /\ ret < 0

\* The command is missing or unrecognized.
NoValidCommand ==
    \/ argc <= 1
    \/ Len(Arg(1)) # 1
    \/ Arg(1)[1] \notin {"d", "h", "t", "v"}

\* C12: for a missing or unrecognized command both the error message and
\* the usage text are written to the error stream, and nothing is written
\* to the standard output stream.
C12_UsageOnErrorStream ==
    (pc = "done" /\ NoValidCommand) =>
        /\ out = <<>>
        /\ Len(err) = 2
        /\ err[2] = Usage

\* The current mode of display d is absent from its catalog: no entry equals
\* it in width, height, refresh rate and the other fields.
CurrentAbsent(d) == \A k \in 1..Len(d.modes) : d.modes[k] # d.current

\* The first six pieces of a mode line: width, height and rate.
ModePart(line) == SubSeq(line, 1, 6)

\* C13: for every display the list operation prints the catalog entries one
\* per line in catalog order, and one more final line, for the current mode
\* and marked current, if and only if no catalog entry equals the current
\* mode; the number of mode lines is the catalog length, plus one exactly
\* when the current mode is absent from the catalog.
C13_Reconciliation ==
    parsed_args.option = kOptionSupportedModes =>
        \A b \in 1..Len(BlocksOf(out)) :
            LET block == BlocksOf(out)[b]
                d == displays[b]
                n == Len(d.modes)
            IN  /\ Len(block) = n + (IF CurrentAbsent(d) THEN 1 ELSE 0)
                /\ \A j \in 1..n : ModePart(block[j]) = BaseLine(d.modes[j])
                /\ CurrentAbsent(d) =>
                      /\ ModePart(block[n + 1]) = BaseLine(d.current)
                      /\ HasPiece(block[n + 1], " *")

\* A display was printed whose catalog has an entry of the current mode's
\* width, height and refresh rate that still differs from the current mode.
C13_Witness ==
    /\ parsed_args.option = kOptionSupportedModes
    /\ \E b \in 1..Len(BlocksOf(out)) :
          /\ CurrentAbsent(displays[b])
          /\ \E k \in 1..Len(displays[b].modes) :
                BaseLine(displays[b].modes[k]) = BaseLine(displays[b].current)
          /\ Len(BlocksOf(out)[b]) = Len(displays[b].modes) + 1

\* C14: every handle the program acquires (the array of modes, the copied
\* current mode, the retained selected mode) is released exactly once on
\* every exit path; at process exit no handle is acquired and unreleased,
\* and none was released twice.
C14_HandlesReleased ==
    /\ handles.modes >= 0 /\ handles.current_mode >= 0 /\ handles.mode >= 0
    /\ pc = "done" => handles = NoHandles

\* C15: whenever the change operation is dispatched with a refresh-rate
\* constraint present, the constraint held in the parsed arguments is
\* non-negative; a "@<refresh>" token with a negative value never reaches
\* mode selection.
C15_RefreshNonNegative ==
    ( /\ Parsed
      /\ parsed_args.option = kOptionConfigureMode
      /\ RefreshTokenPresent ) =>
        /\ parsed_args.refresh_rate >= 0
        /\ strtod(Tail(Arg(4))).val >= 0

\* C17: for a command token of exactly one character that is not one of d,
\* h, t, v ParseArgs returns kOptionInvalid; it returns kOptionMissing only
\* when there is no command token or its length is not one.
C17_InvalidOption ==
    Parsed =>
        /\ (argc > 1 /\ Len(Arg(1)) = 1 /\ Arg(1)[1] \notin {"d", "h", "t", "v"}) =>
              parsed_args.option = kOptionInvalid
        /\ parsed_args.option = kOptionMissing =>
              (argc <= 1 \/ Len(Arg(1)) # 1)

\* The display-service calls of a complete change operation, in order.
ChangeSequence ==
    <<"CGGetActiveDisplayList", "CGDisplayCopyAllDisplayModes",
      "CGDisplayCopyDisplayMode", "CGBeginDisplayConfiguration",
      "CGConfigureDisplayWithDisplayMode", "CGCompleteDisplayConfiguration">>

\* C16: in a run of "t" the calls occur in the order resolve display, query
\* the catalog and select, read the current mode, begin, configure,
\* complete; each of begin, configure and complete is issued at most once
\* and only after all earlier steps succeeded; the full sequence is issued
\* also when the selected mode equals the current mode; the previous
\* resolution reported on success is the one read before begin.
C16_CallOrder ==
    (Parsed /\ parsed_args.option = kOptionConfigureMode) =>
        /\ Len(calls) <= Len(ChangeSequence)
        /\ \A k \in 1..Len(calls) : calls[k].name = ChangeSequence[k]
        /\ \A k \in 1..(Len(calls) - 1) : calls[k].result = kCGErrorSuccess
        /\ Len(calls) >= 2 =>
              /\ display < Len(displays)
              /\ parsed_args.display_index = <<display, 0>>
        /\ Len(calls) >= 3 => mode # NULL
        /\ ( /\ pc = "done"
             /\ mode # NULL
             /\ \A k \in 1..Len(calls) : calls[k].result = kCGErrorSuccess ) =>
              Len(calls) = Len(ChangeSequence)
        /\ (pc = "done" /\ ret = EXIT_SUCCESS) =>
              /\ Len(out) = 1
              /\ out[1][2] = ToString(displays0[display + 1].current.width)
              /\ out[1][4] = ToString(displays0[display + 1].current.height)

\* A change to the mode the display already had ran to the end.
C16_Witness ==
    /\ parsed_args.option = kOptionConfigureMode
    /\ pc = "done"
    /\ ret = EXIT_SUCCESS
    /\ Len(calls) = Len(ChangeSequence)
    /\ mode = <<displays0[display + 1].current>>

\* C18: once a step of ParseMode has set the option to kOptionInvalidMode no
\* later step resets it; and whenever ParseArgs returns the option "t" the
\* stored width and height are strictly positive and are the converted
\* width and height tokens.
C18_StickyInvalidMode ==
    [][ /\ parsed_args.option = kOptionInvalidMode =>
             parsed_args'.option = kOptionInvalidMode
        /\ (pc' \notin ParsePcs /\ parsed_args'.option = kOptionConfigureMode) =>
             /\ parsed_args'.width # ULZero
             /\ parsed_args'.height # ULZero
             /\ parsed_args'.width = strtoul(Arg(kArgvWidthIndex), einval).val
             /\ parsed_args'.height = strtoul(Arg(kArgvHeightIndex), einval).val
      ]_vars

\* ParseMode returned "invalid mode" although the width and the height it
\* converted are both positive: an earlier step's failure was kept.
C18_Witness ==
    /\ IsChange
    /\ pc = "main"
    /\ parsed_args.option = kOptionInvalidMode
    /\ width # ULZero
    /\ height # ULZero

====
